---- MODULE Spec2Model ----
(***************************************************************************)
(* Model of the ink! contract SimpleContract (src/simple_contract/lib.rs): *)
(* a two-token AMM pool with the storage fields pool, reserves, balances   *)
(* and fees and the messages add_liquidity, swap, remove_liquidity,        *)
(* get_reserve, get_balance and get_fees.                                  *)
(*                                                                         *)
(* A Mapping is a partial function: its domain is the set of keys that     *)
(* were inserted, and Mapping::get(..).unwrap_or_default() reads 0 for a   *)
(* key outside the domain.                                                 *)
(*                                                                         *)
(* Balance is an unsigned fixed-width integer.  The arithmetic operators   *)
(* of the contract are the overflow-checked ones of an ink! build: a sum   *)
(* or product above the maximum, or a difference below zero, panics.  A    *)
(* panic (also the one of assert!) traps the message, and the storage      *)
(* writes the message made before the trap are discarded.  The run of a    *)
(* message records how many writes it had made when it trapped.            *)
(***************************************************************************)
EXTENDS Integers, Sequences, FiniteSets

(* Bounds of the model. *)
MaxCalls == 2
NumAccounts == 2
MaxToken == 2
BalanceBits == 20

BalanceMax == 2 ^ BalanceBits - 1

Accounts == 1 .. NumAccounts
Tokens == 0 .. MaxToken
Amounts == {0, 1, 100, 1000}

(* Amounts near the maximum of Balance. *)
LargeAmounts == {1, 1000, 2 ^ (BalanceBits - 1), BalanceMax - 500}

VARIABLES pool, reserves, balances, fees, last, calls

vars == <<pool, reserves, balances, fees, last, calls>>

(* ---------------------------------------------------------------------- *)
(* Mapping                                                                 *)
(* ---------------------------------------------------------------------- *)

EmptyMapping == [k \in {} |-> 0]

Get(m, k) == IF k \in DOMAIN m THEN m[k] ELSE 0

Insert(m, k, v) == [x \in (DOMAIN m) \cup {k} |-> IF x = k THEN v ELSE m[x]]

(* The key of balances for the caller's balance of a token. *)
BalanceKey_IgnoresCaller(account, token) == <<1, token>>

BalanceKey(account, token) == <<account, token>>

(* ---------------------------------------------------------------------- *)
(* Checked arithmetic on Balance                                           *)
(* ---------------------------------------------------------------------- *)

AddOverflows_Wrapping(a, b) == FALSE

AddOverflows(a, b) == a + b > BalanceMax

MulOverflows(a, b) == b # 0 /\ a > BalanceMax \div b

SubOverflows_Unchecked(a, b) == FALSE

SubOverflows(a, b) == b > a

(* ---------------------------------------------------------------------- *)
(* Results of running a message                                            *)
(* ---------------------------------------------------------------------- *)

NoEvents == << >>

Panic(why, n) ==
    [ok |-> FALSE, why |-> why, writes |-> n, ret |-> 0,
     reserves |-> reserves, balances |-> balances, fees |-> fees,
     events |-> NoEvents]

Done(r, b, n, ret, ev) ==
    [ok |-> TRUE, why |-> "none", writes |-> n, ret |-> ret,
     reserves |-> r, balances |-> b, fees |-> fees,
     events |-> ev]

Snapshot == [reserves |-> reserves, balances |-> balances, fees |-> fees]

Record(op, caller, token, amount, run) ==
    [op |-> op, caller |-> caller, token |-> token, amount |-> amount,
     ok |-> run.ok, why |-> run.why, writes |-> run.writes, ret |-> run.ret,
     events |-> run.events, pre |-> Snapshot]

(* The storage after the message: the writes of a trapped message are      *)
(* discarded.                                                              *)
Commit(op, caller, token, amount, run) ==
    /\ calls' = calls + 1
    /\ reserves' = IF run.ok THEN run.reserves ELSE reserves
    /\ balances' = IF run.ok THEN run.balances ELSE balances
    /\ fees' = IF run.ok THEN run.fees ELSE fees
    /\ last' = Record(op, caller, token, amount, run)
    /\ UNCHANGED pool

(* ---------------------------------------------------------------------- *)
(* new / default                                                           *)
(* ---------------------------------------------------------------------- *)

AmmPool(token_0, token_1) == [token_0 |-> token_0, token_1 |-> token_1]

New(token_0, token_1) ==
    /\ pool = AmmPool(token_0, token_1)
    /\ reserves = EmptyMapping
    /\ balances = EmptyMapping
    /\ fees = EmptyMapping

Default == New(0, 1)

Constructed ==
    /\ calls = 0
    /\ last = [op |-> "new", caller |-> 0, token |-> 0, amount |-> 0,
               ok |-> TRUE, why |-> "none", writes |-> 0, ret |-> 0,
               events |-> NoEvents, pre |-> Snapshot]

(* The contract constructed by either constructor. *)
Init ==
    /\ \/ Default
       \/ \E token_0 \in Tokens, token_1 \in Tokens : New(token_0, token_1)
    /\ Constructed

(* The contract constructed by default(). *)
InitDefault == Default /\ Constructed

(* ---------------------------------------------------------------------- *)
(* add_liquidity                                                           *)
(* ---------------------------------------------------------------------- *)

LiquidityAdded(tokens, amounts, account) ==
    [event |-> "LiquidityAdded", tokens |-> tokens, amounts |-> amounts,
     account |-> account]

NewAmount_Overwrite(old, amount) == amount

NewAmount(old, amount) == old + amount

AddLiquidityRun(account, amount) ==
    LET token_0 == pool.token_0
        token_1 == pool.token_1
        old_token_0_amount == Get(reserves, token_0)
    IN
    IF AddOverflows(old_token_0_amount, amount) THEN Panic("overflow", 0) ELSE
    LET r1 == Insert(reserves, token_0, NewAmount(old_token_0_amount, amount))
        old_token_1_amount == Get(r1, token_1)
    IN
    IF AddOverflows(old_token_1_amount, amount) THEN Panic("overflow", 1) ELSE
    LET r2 == Insert(r1, token_1, NewAmount(old_token_1_amount, amount))
        old_token_0_balance == Get(balances, BalanceKey(account, token_0))
    IN
    IF AddOverflows(old_token_0_balance, amount) THEN Panic("overflow", 2) ELSE
    LET b1 == Insert(balances, BalanceKey(account, token_0),
                     NewAmount(old_token_0_balance, amount))
        old_token_1_balance == Get(b1, BalanceKey(account, token_1))
    IN
    IF AddOverflows(old_token_1_balance, amount) THEN Panic("overflow", 3) ELSE
    LET b2 == Insert(b1, BalanceKey(account, token_1),
                     NewAmount(old_token_1_balance, amount))
    IN
    Done(r2, b2, 4, 0,
         <<LiquidityAdded(<<token_0, token_1>>, <<amount, amount>>, account)>>)

AddLiquidity(account, amount) ==
    /\ calls < MaxCalls
    /\ Commit("add_liquidity", account, 0, amount, AddLiquidityRun(account, amount))

(* ---------------------------------------------------------------------- *)
(* swap                                                                    *)
(* ---------------------------------------------------------------------- *)

Swapped_TokensExchanged(token_in, token_out, token_in_amount, token_out_amount, account) ==
    [event |-> "Swapped", token_in |-> token_out, token_out |-> token_in,
     token_in_amount |-> token_in_amount,
     token_out_amount |-> token_out_amount, account |-> account]

Swapped(token_in, token_out, token_in_amount, token_out_amount, account) ==
    [event |-> "Swapped", token_in |-> token_in, token_out |-> token_out,
     token_in_amount |-> token_in_amount,
     token_out_amount |-> token_out_amount, account |-> account]

TokenInPool_Any(token_in) == TRUE

TokenInPool(token_in) == token_in = pool.token_0 \/ token_in = pool.token_1

TokenOut(token_in) ==
    IF token_in = pool.token_0 THEN pool.token_1 ELSE pool.token_0

TokenIn(token_in) ==
    IF token_in = pool.token_0 THEN pool.token_0 ELSE pool.token_1

TokenInAmount_NoFee(amount) == amount

TokenInAmount(amount) == (amount * 997) \div 1000

TokenOutAmount_NoFeeInDivisor(reserve_in, reserve_out, token_in_amount) ==
    IF reserve_in # 0
    THEN (reserve_out * token_in_amount) \div reserve_in
    ELSE 0

TokenOutAmount(reserve_in, reserve_out, token_in_amount) ==
    IF (reserve_in + token_in_amount) # 0
    THEN (reserve_out * token_in_amount) \div (reserve_in + token_in_amount)
    ELSE 0


SwapRun(account, token, amount) ==
    IF ~TokenInPool(token) THEN Panic("unknown_token", 0) ELSE
    LET token_in == TokenIn(token)
        token_out == TokenOut(token)
        reserve_in == Get(reserves, token_in)
        reserve_out == Get(reserves, token_out)
    IN
    IF MulOverflows(amount, 997) THEN Panic("overflow", 0) ELSE
    LET token_in_amount == TokenInAmount(amount)
        fee == amount - token_in_amount
        old_fee == Get(reserves, token_in)
    IN
    IF AddOverflows(old_fee, fee) THEN Panic("overflow", 0) ELSE
    LET new_fee == old_fee + fee
        r1 == Insert(reserves, token_in, new_fee)
    IN
    IF AddOverflows(reserve_in, token_in_amount) THEN Panic("overflow", 1) ELSE
    IF (reserve_in + token_in_amount) # 0 /\ MulOverflows(reserve_out, token_in_amount)
    THEN Panic("overflow", 1) ELSE
    LET token_out_amount == TokenOutAmount(reserve_in, reserve_out, token_in_amount)
        pool_reserve_out == Get(r1, token_out)
    IN
    IF ~(token_out_amount <= pool_reserve_out)
    THEN Panic("not_enough_balance", 1) ELSE
    LET new_reserve_in == reserve_in + token_in_amount
        r2 == Insert(r1, token_in, new_reserve_in)
        old_balance_in == Get(balances, BalanceKey(account, token_in))
    IN
    IF AddOverflows(old_balance_in, token_in_amount) THEN Panic("overflow", 2) ELSE
    LET new_balance_in == old_balance_in + token_in_amount
        b1 == Insert(balances, BalanceKey(account, token_in), new_balance_in)
    IN
    IF SubOverflows(reserve_out, token_out_amount) THEN Panic("overflow", 3) ELSE
    LET new_reserve_out == reserve_out - token_out_amount
        r3 == Insert(r2, token_out, new_reserve_out)
        old_balance_out == Get(b1, BalanceKey(account, token_out))
    IN
    IF SubOverflows(old_balance_out, token_out_amount) THEN Panic("overflow", 4) ELSE
    LET new_balance_out == old_balance_out - token_out_amount
        b2 == Insert(b1, BalanceKey(account, token_out), new_balance_out)
    IN
    Done(r3, b2, 5, token_out_amount,
         <<Swapped(token_in, token_out, token_in_amount, token_out_amount, account)>>)

Swap(account, token_in, amount) ==
    /\ calls < MaxCalls
    /\ Commit("swap", account, token_in, amount, SwapRun(account, token_in, amount))

(* ---------------------------------------------------------------------- *)
(* remove_liquidity and the getters                                        *)
(* ---------------------------------------------------------------------- *)

RemoveLiquidity(account) ==
    /\ calls < MaxCalls
    /\ Commit("remove_liquidity", account, 0, 0,
           Done(reserves, balances, 0, 0, NoEvents))

GetReserve(account, token) ==
    /\ calls < MaxCalls
    /\ Commit("get_reserve", account, token, 0,
           Done(reserves, balances, 0, Get(reserves, token), NoEvents))

GetBalance(account, token) ==
    /\ calls < MaxCalls
    /\ Commit("get_balance", account, token, 0,
           Done(reserves, balances, 0, Get(balances, BalanceKey(account, token)), NoEvents))

GetFees_ReadsReserves(account, token) ==
    /\ calls < MaxCalls
    /\ Commit("get_fees", account, token, 0,
           Done(reserves, balances, 0, Get(reserves, token), NoEvents))

GetFees(account, token) ==
    /\ calls < MaxCalls
    /\ Commit("get_fees", account, token, 0,
           Done(reserves, balances, 0, Get(fees, token), NoEvents))

(* ---------------------------------------------------------------------- *)
(* Specification                                                           *)
(* ---------------------------------------------------------------------- *)

Next ==
    \/ \E account \in Accounts, amount \in Amounts : AddLiquidity(account, amount)
    \/ \E account \in Accounts, token_in \in Tokens, amount \in Amounts :
          Swap(account, token_in, amount)
    \/ \E account \in Accounts : RemoveLiquidity(account)
    \/ \E account \in Accounts, token \in Tokens : GetReserve(account, token)
    \/ \E account \in Accounts, token \in Tokens : GetBalance(account, token)
    \/ \E account \in Accounts, token \in Tokens : GetFees(account, token)

Spec == Init /\ [][Next]_vars

SpecDefault == InitDefault /\ [][Next]_vars

(* The messages called with amounts near the maximum of Balance. *)
NextLarge ==
    \/ \E account \in Accounts, amount \in LargeAmounts : AddLiquidity(account, amount)
    \/ \E account \in Accounts, token_in \in Tokens, amount \in LargeAmounts :
          Swap(account, token_in, amount)
    \/ \E account \in Accounts : RemoveLiquidity(account)
    \/ \E account \in Accounts, token \in Tokens : GetReserve(account, token)
    \/ \E account \in Accounts, token \in Tokens : GetBalance(account, token)
    \/ \E account \in Accounts, token \in Tokens : GetFees(account, token)

SpecLarge == Init /\ [][NextLarge]_vars

(* ---------------------------------------------------------------------- *)
(* Properties                                                              *)
(* ---------------------------------------------------------------------- *)

LastSwap == last.op = "swap"

LastAddLiquidity == last.op = "add_liquidity"

PoolAsset(token) == token \in {pool.token_0, pool.token_1}

DistinctAssets == pool.token_0 # pool.token_1

OtherAsset(token) == IF token = pool.token_0 THEN pool.token_1 ELSE pool.token_0

AfterFee(amount) == (amount * 997) \div 1000

StorageUnchanged ==
    /\ reserves = last.pre.reserves
    /\ balances = last.pre.balances
    /\ fees = last.pre.fees

(* C1: every failing swap detects its failure before any write, so that    *)
(* reserves, balances and fees are what they were before the call.         *)
C1_FailingSwapDetectedBeforeAnyWrite ==
    (LastSwap /\ ~last.ok) => (last.writes = 0 /\ StorageUnchanged)

(* C2: a successful swap on a pool with two distinct assets adds the       *)
(* after-fee amount to reserve(token_in), removes the returned amount from *)
(* reserve(token_out), and returns at most reserve(token_out); no reserve  *)
(* is ever negative.                                                       *)
C2_SwapMovesReserves ==
    /\ \A t \in DOMAIN reserves : reserves[t] >= 0
    /\ (LastSwap /\ last.ok /\ DistinctAssets) =>
          LET t_in == last.token
              t_out == OtherAsset(last.token)
          IN  /\ Get(reserves, t_in) =
                    Get(last.pre.reserves, t_in) + AfterFee(last.amount)
              /\ Get(reserves, t_out) = Get(last.pre.reserves, t_out) - last.ret
              /\ last.ret <= Get(last.pre.reserves, t_out)

C2_Witness ==
    /\ LastSwap /\ last.ok /\ DistinctAssets
    /\ last.ret > 0
    /\ last.amount > AfterFee(last.amount)

(* C3: a successful swap returns floor(reserve_out * a / (reserve_in + a)) *)
(* with a = floor(amount * 997 / 1000) and the reserves read before the    *)
(* call; when reserve_in + a = 0 the swap succeeds and returns 0.          *)
C3_SwapOutputFormula ==
    LET a == AfterFee(last.amount)
        reserve_in == Get(last.pre.reserves, last.token)
        reserve_out == Get(last.pre.reserves, OtherAsset(last.token))
    IN  /\ (LastSwap /\ last.ok /\ reserve_in + a # 0) =>
              last.ret = (reserve_out * a) \div (reserve_in + a)
        /\ (LastSwap /\ PoolAsset(last.token) /\ reserve_in + a = 0) =>
              (last.ok /\ last.ret = 0)

C3_Witness ==
    /\ LastSwap /\ last.ok /\ DistinctAssets
    /\ Get(last.pre.reserves, last.token) = 1000
    /\ Get(last.pre.reserves, OtherAsset(last.token)) = 1000
    /\ last.amount = 100
    /\ last.ret = 90

(* C4: every balance is >= 0, and a swap whose output exceeds the balance  *)
(* of token_out the caller has at the debit fails and leaves all balances  *)
(* as they were.                                                           *)
C4_BalanceAtDebit ==
    Get(last.pre.balances, <<last.caller, OtherAsset(last.token)>>)
      + (IF DistinctAssets THEN 0 ELSE AfterFee(last.amount))

C4_SwapOutput ==
    LET a == AfterFee(last.amount)
        reserve_in == Get(last.pre.reserves, last.token)
        reserve_out == Get(last.pre.reserves, OtherAsset(last.token))
    IN  IF reserve_in + a # 0 THEN (reserve_out * a) \div (reserve_in + a) ELSE 0

C4_NoNegativeBalance ==
    /\ \A k \in DOMAIN balances : balances[k] >= 0
    /\ (LastSwap /\ PoolAsset(last.token) /\ C4_SwapOutput > C4_BalanceAtDebit) =>
          (~last.ok /\ balances = last.pre.balances)

C4_Witness ==
    /\ LastSwap /\ PoolAsset(last.token) /\ ~last.ok
    /\ last.writes = 4
    /\ C4_SwapOutput > C4_BalanceAtDebit
    /\ balances = last.pre.balances

(* C5: after a successful swap the caller's balance of token_out is its    *)
(* balance before the call plus the returned amount.                       *)
C5_SwapCreditsOutput ==
    (LastSwap /\ last.ok) =>
        Get(balances, <<last.caller, OtherAsset(last.token)>>) =
            Get(last.pre.balances, <<last.caller, OtherAsset(last.token)>>)
              + last.ret

(* C6: after a successful swap the fee accumulator of token_in has grown   *)
(* by amount - floor(amount * 997 / 1000).                                 *)
C6_SwapAccruesFee ==
    (LastSwap /\ last.ok) =>
        Get(fees, last.token) =
            Get(last.pre.fees, last.token) + (last.amount - AfterFee(last.amount))

(* C7: across a successful swap the product reserve(token_0) *             *)
(* reserve(token_1) does not decrease.                                     *)
C7_ProductDoesNotDecrease ==
    (LastSwap /\ last.ok) =>
        Get(reserves, pool.token_0) * Get(reserves, pool.token_1) >=
            Get(last.pre.reserves, pool.token_0)
              * Get(last.pre.reserves, pool.token_1)

(* C8: a swap whose token_in is neither of the pool's assets fails, and    *)
(* reserves, balances and fees are unchanged.                              *)
C8_UnknownTokenFails ==
    (LastSwap /\ ~PoolAsset(last.token)) => (~last.ok /\ StorageUnchanged)

C8_Witness ==
    /\ LastSwap /\ ~PoolAsset(last.token) /\ ~last.ok
    /\ Get(reserves, pool.token_0) > 0
    /\ Get(reserves, pool.token_1) > 0
    /\ last.amount > 0

(* C9: a swap of a pool asset with amount 0 fails with an invalid-amount   *)
(* error.                                                                  *)
C9_ZeroAmountFails ==
    (LastSwap /\ PoolAsset(last.token) /\ last.amount = 0) =>
        (~last.ok /\ last.why = "invalid_amount")

(* C10: on a pool with two distinct assets a successful add_liquidity      *)
(* increases both reserves and both balances of the caller by exactly      *)
(* amount.                                                                 *)
C10_AddLiquidityAddsAmount ==
    (LastAddLiquidity /\ last.ok /\ DistinctAssets) =>
        \A t \in {pool.token_0, pool.token_1} :
            /\ Get(reserves, t) = Get(last.pre.reserves, t) + last.amount
            /\ Get(balances, <<last.caller, t>>) =
                  Get(last.pre.balances, <<last.caller, t>>) + last.amount

C10_Witness ==
    /\ LastAddLiquidity /\ last.ok /\ DistinctAssets
    /\ last.amount = 1000
    /\ Get(last.pre.reserves, pool.token_0) = 1000
    /\ Get(reserves, pool.token_0) = 2000
    /\ Get(reserves, pool.token_1) = 2000
    /\ Get(balances, <<last.caller, pool.token_0>>) = 2000
    /\ Get(balances, <<last.caller, pool.token_1>>) = 2000

(* C11: add_liquidity(0) fails with an invalid-amount error, changes no    *)
(* state and emits no LiquidityAdded event.                                *)
C11_AddZeroLiquidityFails ==
    (LastAddLiquidity /\ last.amount = 0) =>
        /\ ~last.ok
        /\ last.why = "invalid_amount"
        /\ StorageUnchanged
        /\ last.events = << >>

C13_AssetsDistinct == pool.token_0 # pool.token_1

(* C14: remove_liquidity burns the caller's share, reduces both reserves   *)
(* in proportion and credits the caller, and it fails when the total       *)
(* liquidity supply is 0: on a pool into which nothing was ever deposited  *)
(* (no entry in reserves or balances) the call fails.                      *)
C14_RemoveLiquidityFailsOnEmptyPool ==
    (/\ last.op = "remove_liquidity"
     /\ last.pre.reserves = EmptyMapping
     /\ last.pre.balances = EmptyMapping) => ~last.ok

(* C15: no operation stores or returns a value outside the width of       *)
(* Balance: when a sum or product of add_liquidity or swap (old + amount,  *)
(* amount * 997, reserve_out * amount_in_after_fee, reserve_in +           *)
(* amount_in_after_fee) exceeds the width, the operation fails and leaves  *)
(* the state unchanged.                                                    *)
InWidth(v) == v \in 0 .. BalanceMax

SumExceeds(x, y) == x + y > BalanceMax

ProductExceeds(x, y) == y # 0 /\ x > BalanceMax \div y

C15_AddExceeds ==
    \E t \in {pool.token_0, pool.token_1} :
        \/ SumExceeds(Get(last.pre.reserves, t), last.amount)
        \/ SumExceeds(Get(last.pre.balances, <<last.caller, t>>), last.amount)

C15_SwapExceeds ==
    \/ ProductExceeds(last.amount, 997)
    \/ /\ ~ProductExceeds(last.amount, 997)
       /\ LET a == AfterFee(last.amount)
              reserve_in == Get(last.pre.reserves, last.token)
              reserve_out == Get(last.pre.reserves, OtherAsset(last.token))
          IN  \/ SumExceeds(reserve_in, a)
              \/ ProductExceeds(reserve_out, a)
              \/ SumExceeds(Get(last.pre.balances, <<last.caller, last.token>>), a)

C15_NoWrappedValue ==
    /\ \A k \in DOMAIN reserves : InWidth(reserves[k])
    /\ \A k \in DOMAIN balances : InWidth(balances[k])
    /\ \A k \in DOMAIN fees : InWidth(fees[k])
    /\ InWidth(last.ret)
    /\ (LastAddLiquidity /\ C15_AddExceeds) => (~last.ok /\ StorageUnchanged)
    /\ (LastSwap /\ PoolAsset(last.token) /\ C15_SwapExceeds) =>
          (~last.ok /\ StorageUnchanged)

C15_Witness ==
    /\ LastSwap /\ PoolAsset(last.token) /\ ~last.ok
    /\ ~ProductExceeds(last.amount, 997)
    /\ SumExceeds(Get(last.pre.reserves, last.token), AfterFee(last.amount))
    /\ last.writes = 1
    /\ StorageUnchanged

C15_AddWitness ==
    /\ LastAddLiquidity /\ ~last.ok /\ C15_AddExceeds /\ last.writes > 0

C15_ProductWitness ==
    /\ LastSwap /\ PoolAsset(last.token) /\ ~last.ok
    /\ ~ProductExceeds(last.amount, 997)
    /\ ~SumExceeds(Get(last.pre.reserves, last.token), AfterFee(last.amount))
    /\ ProductExceeds(Get(last.pre.reserves, OtherAsset(last.token)),
                      AfterFee(last.amount))

(* C16: get_reserve, get_balance and get_fees never fail, return the       *)
(* stored value and 0 for an absent entry, leave reserves, balances and    *)
(* fees unchanged, and a second call with the same arguments and caller    *)
(* right after the first returns the same value.                           *)
LastGetter == last.op \in {"get_reserve", "get_balance", "get_fees"}

C16_Stored ==
    IF last.op = "get_reserve"
    THEN IF last.token \in DOMAIN reserves THEN reserves[last.token] ELSE 0
    ELSE IF last.op = "get_balance"
    THEN IF <<last.caller, last.token>> \in DOMAIN balances
         THEN balances[<<last.caller, last.token>>] ELSE 0
    ELSE IF last.token \in DOMAIN fees THEN fees[last.token] ELSE 0

C16_ReadIsPure ==
    LastGetter =>
        /\ last.ok
        /\ StorageUnchanged
        /\ last.events = << >>
        /\ last.ret = C16_Stored

C16_SecondReadAgrees ==
    (/\ LastGetter
     /\ last'.op = last.op
     /\ last'.token = last.token
     /\ last'.caller = last.caller) => last'.ret = last.ret

C16_GettersArePureReads == []C16_ReadIsPure /\ [][C16_SecondReadAgrees]_vars

C16_Witness ==
    /\ last.op = "get_reserve"
    /\ last.ok
    /\ last.token \in DOMAIN reserves
    /\ last.ret = 1000
    /\ StorageUnchanged

(* C17: on a pool with two distinct assets, for each pool asset the        *)
(* reserve equals the sum over all accounts of their balance of it.        *)
RECURSIVE SumOfBalances(_, _)
SumOfBalances(accounts, token) ==
    IF accounts = {} THEN 0
    ELSE LET a == CHOOSE x \in accounts : TRUE
         IN  Get(balances, <<a, token>>) + SumOfBalances(accounts \ {a}, token)

C17_ReserveIsSumOfBalances ==
    DistinctAssets =>
        \A t \in {pool.token_0, pool.token_1} :
            Get(reserves, t) = SumOfBalances(Accounts, t)

C17_Witness ==
    /\ DistinctAssets
    /\ \A a \in {1, 2} : Get(balances, <<a, pool.token_0>>) > 0
    /\ Get(reserves, pool.token_0) # Get(reserves, pool.token_1)
    /\ Get(reserves, pool.token_0) =
          Get(balances, <<1, pool.token_0>>) + Get(balances, <<2, pool.token_0>>)

(* C18: add_liquidity and swap called by account c change only c's        *)
(* balances of the pool assets and the reserves of the pool assets; the    *)
(* reserve of an asset outside the pool is 0 in every reachable state.     *)
C18_OnlyCallerAndPoolChange ==
    /\ \A t \in Tokens : ~PoolAsset(t) => Get(reserves, t) = 0
    /\ (LastAddLiquidity \/ LastSwap) =>
          /\ \A a \in Accounts, t \in Tokens :
                a # last.caller =>
                    Get(balances, <<a, t>>) = Get(last.pre.balances, <<a, t>>)
          /\ \A t \in Tokens :
                ~PoolAsset(t) =>
                    /\ Get(balances, <<last.caller, t>>) =
                          Get(last.pre.balances, <<last.caller, t>>)
                    /\ Get(reserves, t) = Get(last.pre.reserves, t)
          /\ DOMAIN reserves \subseteq {pool.token_0, pool.token_1}
          /\ DOMAIN balances \subseteq
                (DOMAIN last.pre.balances)
                  \cup ({last.caller} \X {pool.token_0, pool.token_1})

C18_Witness ==
    /\ (LastAddLiquidity \/ LastSwap) /\ last.ok
    /\ \E t \in Tokens : ~PoolAsset(t)
    /\ \E a \in Accounts :
          /\ a # last.caller
          /\ Get(balances, <<a, pool.token_0>>) > 0
          /\ Get(balances, <<a, pool.token_0>>) =
                Get(last.pre.balances, <<a, pool.token_0>>)
    /\ Get(balances, <<last.caller, pool.token_0>>) >
          Get(last.pre.balances, <<last.caller, pool.token_0>>)

====
